---------------------------- MODULE Spec2Model ----------------------------
(***************************************************************************)
(* Model of src/notebook/BSM_Example.ipynb: the trainer fit_net and the    *)
(* notebook cells that call it and reload its checkpoint.                  *)
(*                                                                         *)
(* Network parameters are abstract values 0..MaxParam (one value stands    *)
(* for one full set of weight tensors).  The test split fixes a test loss  *)
(* for every parameter value: lossOf.  Losses are counted in units of      *)
(* half the initial best value, so that 1e-3 reads Floor = 2; a loss may   *)
(* also be NaN or +Inf (labels of a degenerate maturity).                  *)
(*                                                                         *)
(* Tensors live in `store`: the network's weights under "net", Adam's      *)
(* state (its step count) under "opt".  net.state_dict() and               *)
(* optimizer.state_dict() return dictionaries that refer to those live     *)
(* tensors, so a checkpoint holds the two store addresses, not values.     *)
(***************************************************************************)
EXTENDS Integers, Sequences, FiniteSets, TLC

\* ---------------------------------------------------------------- bounds
MaxEpochs == 3
MaxParam == 1
MaxLoss == 3
MaxN == 4
FracBits == 3

\* ------------------------------------------------------ program constants
\* best_l = 1e-3, in loss units of 5e-4
Floor == 2
\* l = 123.45, in the same units
InitialL == 246900
\* Net(n_feature=5, n_hidden=100, n_layers=4, n_output=1)
NHidden == 100
NLayers == 4

\* --------------------------------------------------------------- values
Params == 0..MaxParam

Fin(v) == [kind |-> "fin", v |-> v]
NaN == [kind |-> "nan", v |-> 0]
Inf == [kind |-> "inf", v |-> 0]
LossValues == {Fin(v) : v \in 0..MaxLoss} \cup {NaN, Inf}

\* a <= b and a < b on floats: false as soon as one side is NaN
LessOrEqual(a, b) ==
    /\ a.kind # "nan"
    /\ b.kind # "nan"
    /\ \/ a.kind = "fin" /\ b.kind = "fin" /\ a.v <= b.v
       \/ b.kind = "inf"

Less(a, b) ==
    /\ a.kind # "nan"
    /\ b.kind # "nan"
    /\ \/ a.kind = "fin" /\ b.kind = "fin" /\ a.v < b.v
       \/ a.kind = "fin" /\ b.kind = "inf"

\* fractions are k / Den with Den a power of two: exact as floats
RECURSIVE Pow2(_)
Pow2(k) == IF k = 0 THEN 1 ELSE 2 * Pow2(k - 1)

Den == Pow2(FracBits)

\* int(np.round(num / den)): numpy rounds halves to the even integer
NpRound(num, den) ==
    LET q == num \div den
        r == num % den
    IN  IF 2 * r < den THEN q
        ELSE IF 2 * r > den THEN q + 1
        ELSE IF q % 2 = 0 THEN q ELSE q + 1

\* the row indices x[lo:hi] selects out of n rows (a slice clips at n)
Slice(lo, hi, n) == {i \in 0..(n - 1) : lo <= i /\ i < hi}

EmptyCheckpoint == <<>>

VARIABLES
    pc,              \* position in the notebook run
    n,               \* number of samples (rows of x and y)
    pct_test,        \* test fraction, numerator over Den
    pct_validation,  \* validation fraction, numerator over Den
    n_epochs,
    lossOf,          \* test loss of each parameter value on the test split
    store,           \* live tensors: the weights and the optimizer state
    n_train, n_test,
    e,               \* loop index of fit_net
    loss,            \* train loss of the epoch: the parameters it was computed on
    loss_test,       \* test loss of the epoch: [data, on]
    l, best_l, checkpoint,
    ret,             \* <<>> until fit_net returns, then <<ls, checkpoint>>
    model,           \* the network rebuilt from the checkpoint, <<>> before
    ind_validation,
    stats,           \* validation statistics, <<>> until computed
    hist,            \* history: the test loss compared at each epoch
    captures         \* history: the epochs whose comparison assigned checkpoint

vars == <<pc, n, pct_test, pct_validation, n_epochs, lossOf, store, n_train,
          n_test, e, loss, loss_test, l, best_l, checkpoint, ret, model,
          ind_validation, stats, hist, captures>>

InitWith(ns, fracs, epochs, surfaces) ==
    /\ pc = "not_started"
    /\ n \in ns
    /\ \E f \in fracs : pct_test = f[1] /\ pct_validation = f[2]
    /\ n_epochs \in epochs
    /\ lossOf \in surfaces
    /\ store = [net |-> 0, opt |-> 0]
    /\ n_train = 0
    /\ n_test = 0
    /\ e = 0
    /\ loss = <<>>
    /\ loss_test = <<>>
    /\ l = NaN
    /\ best_l = NaN
    /\ checkpoint = EmptyCheckpoint
    /\ ret = <<>>
    /\ model = <<>>
    /\ ind_validation = 0
    /\ stats = <<>>
    /\ hist = <<>>
    /\ captures = <<>>

\* the trainer on every loss surface and epoch count, one fixed split
Init ==
    InitWith({Den}, {<<2, 1>>}, 0..MaxEpochs, [Params -> LossValues])

\* the split on every size and pair of fractions, a run of at most one epoch
SplitInit ==
    InitWith(1..MaxN,
             {f \in (0..Den) \X (0..Den) : f[1] + f[2] <= Den},
             {0, 1},
             {[p \in Params |-> v] : v \in {Fin(0), NaN}})

\* fit_net, lines 179-200: the split, the optimizer, the initial best
StartFit ==
    /\ pc = "not_started"
    /\ n_train' = NpRound(n * (Den - pct_test - pct_validation), Den)
    /\ n_test' = NpRound(n * pct_test, Den)
    /\ l' = Fin(InitialL)
    /\ best_l' = Fin(Floor)
    /\ checkpoint' = EmptyCheckpoint
    /\ e' = 0
    /\ pc' = "loop"
    /\ UNCHANGED <<n, pct_test, pct_validation, n_epochs, lossOf, store, loss,
                   loss_test, ret, model, ind_validation, stats, hist,
                   captures>>

\* variant: range(n_epochs + 1), one epoch too many
LoopContinuesOneMore == e <= n_epochs

\* for e in range(n_epochs)
LoopContinues == e < n_epochs

\* lines 204-208: both forward passes, on the live parameters
Forward ==
    /\ pc = "loop"
    /\ LoopContinues
    /\ loss' = [on |-> store.net]
    /\ loss_test' = [data |-> lossOf[store.net], on |-> store.net]
    /\ pc' = "backward"
    /\ UNCHANGED <<n, pct_test, pct_validation, n_epochs, lossOf, store,
                   n_train, n_test, e, l, best_l, checkpoint, ret, model,
                   ind_validation, stats, hist, captures>>

\* variant: the optimizer stepped twice in an epoch
OptimizerStepTwice ==
    /\ pc = "backward"
    /\ \E p \in Params : store' = [net |-> p, opt |-> store.opt + 2]
    /\ pc' = "compare"
    /\ UNCHANGED <<n, pct_test, pct_validation, n_epochs, lossOf, n_train,
                   n_test, e, loss, loss_test, l, best_l, checkpoint, ret,
                   model, ind_validation, stats, hist, captures>>

\* lines 210-212: zero_grad, backward, one Adam step, in place; the new
\* weights depend on the train split, which is left open
OptimizerStep ==
    /\ pc = "backward"
    /\ \E p \in Params : store' = [net |-> p, opt |-> store.opt + 1]
    /\ pc' = "compare"
    /\ UNCHANGED <<n, pct_test, pct_validation, n_epochs, lossOf, n_train,
                   n_test, e, loss, loss_test, l, best_l, checkpoint, ret,
                   model, ind_validation, stats, hist, captures>>

\* variant: l.item() <= best_l
ImprovesOrTies(x, best) == LessOrEqual(x, best)

\* variant: not (best_l <= l.item()), true of a NaN loss
ImprovesUnlessNotWorse(x, best) == ~LessOrEqual(best, x)

\* l.item() < best_l
Improves(x, best) == Less(x, best)

\* the dictionary of lines 217-222: sizes by value, tensors by reference
Snapshot ==
    [n_hidden |-> NHidden,
     n_layers |-> NLayers,
     model_state_dict |-> "net",
     optimizer_state_dict |-> "opt"]

\* lines 214-222, then the loop takes its next index
Compare ==
    /\ pc = "compare"
    /\ l' = loss_test.data
    /\ IF Improves(loss_test.data, best_l)
       THEN /\ best_l' = loss_test.data
            /\ checkpoint' = Snapshot
            /\ captures' = Append(captures, e)
       ELSE UNCHANGED <<best_l, checkpoint, captures>>
    /\ hist' = Append(hist, loss_test.data)
    /\ e' = e + 1
    /\ pc' = "loop"
    /\ UNCHANGED <<n, pct_test, pct_validation, n_epochs, lossOf, store,
                   n_train, n_test, loss, loss_test, ret, model,
                   ind_validation, stats>>

\* variant: return l, checkpoint
ReturnLastLoss ==
    /\ pc = "loop"
    /\ ~LoopContinues
    /\ ret' = <<l, checkpoint>>
    /\ pc' = "finished"
    /\ UNCHANGED <<n, pct_test, pct_validation, n_epochs, lossOf, store,
                   n_train, n_test, e, loss, loss_test, l, best_l, checkpoint,
                   model, ind_validation, stats, hist, captures>>

\* line 226, and the caller's ls, checkpoint = fit_net(...)
Return ==
    /\ pc = "loop"
    /\ ~LoopContinues
    /\ ret' = <<best_l, checkpoint>>
    /\ pc' = "finished"
    /\ UNCHANGED <<n, pct_test, pct_validation, n_epochs, lossOf, store,
                   n_train, n_test, e, loss, loss_test, l, best_l, checkpoint,
                   model, ind_validation, stats, hist, captures>>

\* checkpoint["n_hidden"] raises KeyError on a dictionary without the key
HasKey(d, k) == k \in DOMAIN d

\* variant: checkpoint.get(...) with the live network as the default
ReloadNoFault ==
    /\ pc = "finished"
    /\ IF HasKey(ret[2], "n_hidden") /\ HasKey(ret[2], "n_layers")
          /\ HasKey(ret[2], "model_state_dict")
       THEN model' = [n_hidden |-> ret[2]["n_hidden"],
                      n_layers |-> ret[2]["n_layers"],
                      params |-> store[ret[2]["model_state_dict"]]]
       ELSE model' = [n_hidden |-> NHidden,
                      n_layers |-> NLayers,
                      params |-> store.net]
    /\ pc' = "reloaded"
    /\ UNCHANGED <<n, pct_test, pct_validation, n_epochs, lossOf, store,
                   n_train, n_test, e, loss, loss_test, l, best_l, checkpoint,
                   ret, ind_validation, stats, hist, captures>>

\* lines 291-297: Net(...) from the checkpoint's sizes, load_state_dict
\* copies the weights; a missing key faults and the run stops there
Reload ==
    /\ pc = "finished"
    /\ IF HasKey(ret[2], "n_hidden") /\ HasKey(ret[2], "n_layers")
          /\ HasKey(ret[2], "model_state_dict")
       THEN /\ model' = [n_hidden |-> ret[2]["n_hidden"],
                         n_layers |-> ret[2]["n_layers"],
                         params |-> store[ret[2]["model_state_dict"]]]
            /\ pc' = "reloaded"
       ELSE /\ model' = model
            /\ pc' = "fault"
    /\ UNCHANGED <<n, pct_test, pct_validation, n_epochs, lossOf, store,
                   n_train, n_test, e, loss, loss_test, l, best_l, checkpoint,
                   ret, ind_validation, stats, hist, captures>>

\* lines 306-309
ValidationSplit ==
    /\ pc = "reloaded"
    /\ ind_validation' = NpRound(n * (Den - pct_validation), Den)
    /\ pc' = "split"
    /\ UNCHANGED <<n, pct_test, pct_validation, n_epochs, lossOf, store,
                   n_train, n_test, e, loss, loss_test, l, best_l, checkpoint,
                   ret, model, stats, hist, captures>>

\* lines 318-321: the errors of the reloaded model on the validation rows
Validate ==
    /\ pc = "split"
    /\ stats' = [on |-> model.params,
                 rows |-> Slice(ind_validation, n, n)]
    /\ pc' = "validated"
    /\ UNCHANGED <<n, pct_test, pct_validation, n_epochs, lossOf, store,
                   n_train, n_test, e, loss, loss_test, l, best_l, checkpoint,
                   ret, model, ind_validation, hist, captures>>

Next ==
    \/ StartFit
    \/ Forward
    \/ OptimizerStep
    \/ Compare
    \/ Return
    \/ Reload
    \/ ValidationSplit
    \/ Validate

Spec == Init /\ [][Next]_vars

\* the notebook runs its cells one after the other until one faults
LiveSpec == Init /\ [][Next]_vars /\ WF_vars(Next)

SplitSpec == SplitInit /\ [][Next]_vars

\* ------------------------------------------------------------ properties
Epochs == 1..Len(hist)

BeatsFloor(x) == Less(x, Fin(Floor))

FloorBeaten == \E i \in Epochs : BeatsFloor(hist[i])

\* the first epoch (counted from 0) whose test loss was x
FirstEpochWith(x) ==
    CHOOSE i \in 0..(Len(hist) - 1) :
        /\ hist[i + 1] = x
        /\ \A j \in 0..(i - 1) : hist[j + 1] # x

\* what the checkpoint dictionary d gives when read now
Contents(d) ==
    [model_state_dict |-> store[d["model_state_dict"]],
     optimizer_state_dict |-> store[d["optimizer_state_dict"]]]

\* C1: if the returned best loss is below the floor, the parameters in the
\* returned checkpoint give, on the test split, exactly the returned loss.
C1_CheckpointReproducesBest ==
    (pc = "finished" /\ BeatsFloor(ret[1]))
        => lossOf[Contents(ret[2]).model_state_dict] = ret[1]

\* C2 as stated: after at least one epoch the returned loss is the least of
\* the epochs' test losses, and the checkpoint was captured at the first
\* epoch that attained it.
C2_ReturnsMinimum ==
    (pc = "finished" /\ n_epochs >= 1)
        => /\ \E i \in Epochs : hist[i] = ret[1]
           /\ \A i \in Epochs : ~Less(hist[i], ret[1])
           /\ ret[2] # EmptyCheckpoint
           /\ captures # <<>>
           /\ captures[Len(captures)] = FirstEpochWith(ret[1])

\* C2 amended: the returned loss is the least of the floor and the epochs'
\* test losses; when some epoch beat the floor the checkpoint is the one
\* assigned at the first epoch that attained that least loss, and otherwise
\* the checkpoint is empty.
C2_ReturnsMinimumUnderFloor ==
    pc = "finished"
        => /\ ret[1] = Fin(Floor) \/ \E i \in Epochs : hist[i] = ret[1]
           /\ LessOrEqual(ret[1], Fin(Floor))
           /\ \A i \in Epochs : ~Less(hist[i], ret[1])
           /\ IF FloorBeaten
              THEN /\ ret[2] = Snapshot
                   /\ captures # <<>>
                   /\ captures[Len(captures)] = FirstEpochWith(ret[1])
              ELSE /\ ret[2] = EmptyCheckpoint
                   /\ captures = <<>>

C2_Witness ==
    /\ pc = "finished"
    /\ hist = <<Fin(1), Fin(0), Fin(0)>>
    /\ ret[1] = Fin(0)
    /\ captures = <<0, 1>>

\* C3: a checkpoint is recorded at an epoch exactly when that epoch's test
\* loss is strictly below the best carried so far; a tie records nothing;
\* a run in which no epoch beat the floor returns (floor, {}).
C3_StrictFloor ==
    /\ [][pc = "compare"
            => /\ (captures' # captures) <=> Less(loss_test.data, best_l)
               /\ captures' # captures
                    => /\ captures' = Append(captures, e)
                       /\ checkpoint' = Snapshot
                       /\ best_l' = loss_test.data
               /\ loss_test.data = best_l
                    => UNCHANGED <<checkpoint, captures, best_l>>]_vars
    /\ []((pc = "finished" /\ ~FloorBeaten)
            => ret = <<Fin(Floor), EmptyCheckpoint>>)

C3_Witness ==
    /\ pc = "finished"
    /\ hist = <<Fin(1), Fin(1), Fin(Floor)>>
    /\ captures = <<0>>
    /\ ret[1] = Fin(1)

\* C4: once captured, what the checkpoint holds for the parameters and the
\* optimizer state changes only when a later epoch captures again.
C4_CheckpointImmutable ==
    [][(checkpoint # EmptyCheckpoint /\ captures' = captures)
         => /\ checkpoint' = checkpoint
            /\ Contents(checkpoint)' = Contents(checkpoint)]_vars

\* C5: the train, test and validation slices share no row, and the test
\* slice ends no later than the validation slice starts.
C5_SlicesDisjoint ==
    pc \in {"split", "validated"}
        => LET train == Slice(0, n_train, n)
               test == Slice(n_train, n_train + n_test, n)
               validation == Slice(ind_validation, n, n)
           IN  /\ train \cap test = {}
               /\ train \cap validation = {}
               /\ test \cap validation = {}
               /\ n_train + n_test <= ind_validation

\* C6: when no epoch beat the floor, fit_net returns (floor, {}) normally
\* and the reload step faults, ending the run without a model or validation
\* statistics; when the floor was beaten the reload step does not fault and
\* the rebuilt network has the trained network's width and depth.
C6_FaultOnlyInCaller ==
    /\ []((pc = "finished" /\ ~FloorBeaten)
            => /\ ret = <<Fin(Floor), EmptyCheckpoint>>
               /\ Len(hist) = n_epochs)
    /\ [](pc = "fault"
            => ~FloorBeaten /\ model = <<>> /\ stats = <<>>)
    /\ [](pc \in {"reloaded", "split", "validated"}
            => /\ FloorBeaten
               /\ model.n_hidden = NHidden
               /\ model.n_layers = NLayers)
    /\ [][pc # "fault"]_vars

C6_Witness ==
    /\ pc = "fault"
    /\ Len(hist) >= 2
    /\ hist[1] = Fin(Floor)

\* C8: the loop index only goes up by one, at the end of an epoch; an epoch
\* is started whenever the index is below n_epochs, whatever the losses;
\* fit_net returns after exactly n_epochs epochs, and does return; with
\* n_epochs = 0 it returns (floor, {}).
C8_FixedEpochCount ==
    /\ [][/\ e' # e => (pc = "compare" /\ e' = e + 1)
          /\ (pc = "loop" /\ e < n_epochs)
               => (pc' = "backward" /\ ret' = <<>>)
          /\ pc' = "finished"
               => /\ e = n_epochs
                  /\ Len(hist) = n_epochs
                  /\ store.opt = n_epochs]_vars
    /\ []((pc = "finished" /\ n_epochs = 0)
            => ret = <<Fin(Floor), EmptyCheckpoint>>)
    /\ <>(pc = "finished")

C8_Witness ==
    /\ pc = "finished"
    /\ n_epochs >= 2
    /\ Len(hist) = n_epochs
    /\ captures = <<0>>

\* C9: in an epoch the two losses are evaluated on the parameters held at
\* the start of the epoch, then one optimizer step updates the parameters,
\* then the test loss evaluated before the step is compared; nothing else
\* changes the parameters, the best value or the checkpoint.
C9_EpochOrder ==
    [][/\ (pc = "loop" /\ pc' # "finished")
            => /\ pc' = "backward"
               /\ store.opt = e
               /\ store' = store
               /\ loss' = [on |-> store.net]
               /\ loss_test' = [data |-> lossOf[store.net], on |-> store.net]
       /\ pc = "backward"
            => /\ pc' = "compare"
               /\ store'.opt = store.opt + 1
               /\ UNCHANGED <<loss, loss_test, best_l, checkpoint, captures>>
       /\ pc = "compare"
            => /\ pc' = "loop"
               /\ store.opt = e + 1
               /\ store' = store
               /\ l' = loss_test.data
               /\ hist' = Append(hist, lossOf[loss.on])
       /\ store' # store => pc = "backward"
       /\ (checkpoint' # checkpoint \/ captures' # captures)
            => pc = "compare"]_vars

C9_Witness ==
    /\ pc = "compare"
    /\ e = 1
    /\ store.opt = 2
    /\ loss_test.on # store.net

\* C10: an epoch whose test loss is NaN (or infinite) leaves the best value
\* and the checkpoint as they were; the best value is always a finite
\* number; a run whose test loss is NaN at every epoch returns (floor, {}).
C10_NonFiniteNeverBest ==
    /\ [][(pc = "compare" /\ loss_test.data.kind # "fin")
            => UNCHANGED <<best_l, checkpoint, captures>>]_vars
    /\ [](pc \in {"loop", "backward", "compare"} => best_l.kind = "fin")
    /\ []((pc = "finished" /\ \A i \in Epochs : hist[i] = NaN)
            => ret = <<Fin(Floor), EmptyCheckpoint>>)

C10_Witness ==
    /\ pc = "finished"
    /\ Len(hist) >= 2
    /\ \A i \in Epochs : hist[i] = NaN

=============================================================================
